---- MODULE Spec2Model ----
(***************************************************************************)
(* Transactional banking API (server.js, "Experiment 6.3").                *)
(*                                                                         *)
(* One sqlite3 connection `db` is shared by every request handler.  Each   *)
(* handler is an async function: every `await` of a database statement is  *)
(* one atomic step of that request, and the steps of different requests    *)
(* interleave freely on the shared connection.  The connection carries the *)
(* transaction state: BEGIN inside an open transaction fails, COMMIT and   *)
(* ROLLBACK without an open transaction fail, statements issued while a    *)
(* transaction is open belong to it whoever issued them, and statements    *)
(* issued with no transaction open are committed at once (autocommit).     *)
(***************************************************************************)
EXTENDS Integers, Sequences, FiniteSets, TLC

\* ------------------------------------------------------------------------
\* Bounds of the model
\* ------------------------------------------------------------------------
\* How many database statements may fail for an external reason (I/O, lock).
MaxFaults == 1

\* How many seconds may pass on the database's clock (CURRENT_TIMESTAMP).
MaxClock == 1

\* The concurrently running requests.
Requests == {"r1", "r2"}

\* ------------------------------------------------------------------------
\* JSON values of the request body, and JavaScript's coercions of them
\* ------------------------------------------------------------------------
Num(n)  == [t |-> "number",    n |-> n, s |-> ""]
Str(s)  == [t |-> "string",    n |-> 0, s |-> s]
Bool(b) == [t |-> "boolean",   n |-> IF b THEN 1 ELSE 0, s |-> ""]
Undef   == [t |-> "undefined", n |-> 0, s |-> ""]

\* Number(v): NaN is [nan |-> TRUE].  Strings are the literals the model uses.
NaN == [nan |-> TRUE, v |-> 0]
Finite(n) == [nan |-> FALSE, v |-> n]

StringToNumber(s) ==
    CASE s = ""    -> Finite(0)
      [] s = "1"   -> Finite(1)
      [] s = "2"   -> Finite(2)
      [] s = "600" -> Finite(600)
      [] OTHER     -> NaN

ToNumber(v) ==
    CASE v.t = "number"    -> Finite(v.n)
      [] v.t = "boolean"   -> Finite(v.n)
      [] v.t = "string"    -> StringToNumber(v.s)
      [] OTHER             -> NaN

\* !v
Falsy(v) ==
    CASE v.t = "number"    -> v.n = 0
      [] v.t = "boolean"   -> v.n = 0
      [] v.t = "string"    -> v.s = ""
      [] OTHER             -> TRUE

\* isNaN(v)
isNaN(v) == ToNumber(v).nan

\* v <= 0 (a comparison with NaN is false)
LeqZero(v) == ~ToNumber(v).nan /\ ToNumber(v).v <= 0

\* Number(v) where the handler has already validated v
Number(v) == ToNumber(v).v

\* ------------------------------------------------------------------------
\* The users table as initDb seeds it
\* ------------------------------------------------------------------------
AliceId == 1
BobId == 2
UserIds == {AliceId, BobId}

AliceBalance == 1000
BobBalance == 500

username(id) == IF id = AliceId THEN "alice" ELSE "bob"

\* SQL NULL in an integer column, and JavaScript's undefined row
NULL == 0
NoRow == [id |-> NULL, username |-> "", balance |-> 0]

InitDb ==
    [ balance      |-> [i \in UserIds |-> IF i = AliceId THEN AliceBalance ELSE BobBalance],
      transactions |-> << >>,
      seq          |-> 0,
      applied      |-> {} ]

\* ------------------------------------------------------------------------
\* State
\* ------------------------------------------------------------------------
VARIABLES
    durable,   \* what the database file holds: the last committed state
    conn,      \* what statements on the shared connection read and write
    inTx,      \* the connection has an open transaction
    owner,     \* the request whose BEGIN opened it, "none" if none is open
    now,       \* the database's clock, in seconds
    faults,    \* statements that have failed for an external reason
    pc,        \* per request: the statement it awaits next, "idle" or "done"
    req,       \* per request: kind, token id and body
    local,     \* per request: the handler's local variables
    resp,      \* per request: the response sent
    hist       \* per request: what it has done so far (history variables)

vars == <<durable, conn, inTx, owner, now, faults, pc, req, local, resp, hist>>

dbvars == <<durable, conn, inTx, owner>>

NoReq ==
    [ kind       |-> "none",
      uid        |-> NULL,    \* req.user.id, from the token
      toUsername |-> Undef,   \* req.body.toUsername
      amount     |-> Undef,   \* req.body.amount
      userId     |-> Undef ]  \* req.query.userId

NoLocal ==
    [ toUser      |-> NoRow,
      fromUser    |-> NoRow,
      freshToUser |-> NoRow,
      newFromBal  |-> 0,
      newToBal    |-> 0,
      err         |-> "" ]

NoResp ==
    [ status      |-> 0,
      error       |-> "",
      fromBalance |-> 0,      \* fromBalance, or balance
      toBalance   |-> 0,
      rows        |-> << >> ] \* the rows a listing returns

NoHist ==
    [ stmts    |-> 0,      \* database statements issued
      begin    |-> 0,      \* BEGIN statements issued
      opened   |-> FALSE,  \* its BEGIN succeeded
      ends     |-> 0,      \* COMMIT and ROLLBACK statements issued
      writes   |-> 0,      \* UPDATE and INSERT statements issued
      checked  |-> FALSE,  \* reached the sufficiency check
      midFault |-> FALSE,  \* failed after the debit and before the credit
      lateFault |-> FALSE, \* a statement failed after a balance was written
      endFault |-> FALSE ] \* a ROLLBACK of its own failed for an external reason

Init ==
    /\ durable = InitDb
    /\ conn = InitDb
    /\ inTx = FALSE
    /\ owner = "none"
    /\ now = 0
    /\ faults = 0
    /\ pc = [r \in Requests |-> "idle"]
    /\ req = [r \in Requests |-> NoReq]
    /\ local = [r \in Requests |-> NoLocal]
    /\ resp = [r \in Requests |-> NoResp]
    /\ hist = [r \in Requests |-> NoHist]

\* ------------------------------------------------------------------------
\* Statements on the shared connection
\* ------------------------------------------------------------------------
\* SELECT * FROM users WHERE id = ?
Row(db, id) ==
    IF id \in UserIds
    THEN [id |-> id, username |-> username(id), balance |-> db.balance[id]]
    ELSE NoRow

\* SELECT * FROM users WHERE username = ?
findUserByUsername(db, name) ==
    IF name.t = "string" /\ \E i \in UserIds : username(i) = name.s
    THEN Row(db, CHOOSE i \in UserIds : username(i) = name.s)
    ELSE NoRow

\* (variant: the UPDATE changes no row)
updateBalance_ignored(db, id, newBalance) == db

\* UPDATE users SET balance = ? WHERE id = ?
updateBalance(db, id, newBalance) ==
    IF id \in UserIds THEN [db EXCEPT !.balance[id] = newBalance] ELSE db

\* FOREIGN KEY(from_user), FOREIGN KEY(to_user) REFERENCES users(id)
ForeignKeysOk(tx) ==
    /\ tx.from_user = NULL \/ tx.from_user \in UserIds
    /\ tx.to_user = NULL \/ tx.to_user \in UserIds

\* (variant: the id sequence does not advance)
insertTransactionRecord_sameId(db, tx) ==
    [db EXCEPT !.transactions =
                   Append(@, [tx EXCEPT !.id = db.seq + 1, !.created_at = now])]

\* INSERT INTO transactions (...) VALUES (...): the row gets the next id and
\* the clock's second
insertTransactionRecord(db, tx) ==
    [db EXCEPT !.transactions =
                   Append(@, [tx EXCEPT !.id = db.seq + 1, !.created_at = now]),
               !.seq = @ + 1]

\* (variant: the two participants change places)
Tx_swapped(type, from_user, to_user, amount, status, note) ==
    [ id        |-> NULL,
      type      |-> type,
      from_user |-> to_user,
      to_user   |-> from_user,
      amount    |-> amount,
      status    |-> status,
      created_at |-> 0,
      note      |-> note ]

\* the row insertTransactionRecord is given
Tx(type, from_user, to_user, amount, status, note) ==
    [ id        |-> NULL,
      type      |-> type,
      from_user |-> from_user,
      to_user   |-> to_user,
      amount    |-> amount,
      status    |-> status,
      created_at |-> 0,
      note      |-> note ]

\* db.exec('BEGIN TRANSACTION;') succeeds
ExecBegin(r) ==
    /\ ~inTx
    /\ inTx' = TRUE
    /\ owner' = r
    /\ UNCHANGED <<durable, conn>>

\* db.exec('COMMIT;') succeeds: the transaction's writes reach the file
ExecCommit ==
    /\ inTx
    /\ durable' = conn
    /\ inTx' = FALSE
    /\ owner' = "none"
    /\ UNCHANGED conn

\* (variant: ROLLBACK reports success and leaves the transaction open)
ExecRollback_leavesOpen ==
    /\ inTx
    /\ UNCHANGED <<durable, conn, inTx, owner>>

\* db.exec('ROLLBACK;') succeeds: the transaction's writes are discarded
ExecRollback ==
    /\ inTx
    /\ conn' = durable
    /\ inTx' = FALSE
    /\ owner' = "none"
    /\ UNCHANGED durable

\* db.run of an UPDATE or INSERT succeeds; with no transaction open it is
\* committed at once
RunWrite(db) ==
    /\ conn' = db
    /\ durable' = IF inTx THEN durable ELSE db
    /\ UNCHANGED <<inTx, owner>>

\* A statement fails for an external reason (the callback gets err and the
\* promise rejects); a failing statement changes nothing.
Fault ==
    /\ faults < MaxFaults
    /\ faults' = faults + 1
    /\ UNCHANGED dbvars

\* ------------------------------------------------------------------------
\* Bookkeeping of one request's step
\* ------------------------------------------------------------------------
Issued(h, stmt) ==
    [h EXCEPT !.stmts = @ + 1,
              !.begin = @ + (IF stmt = "BEGIN" THEN 1 ELSE 0),
              !.ends  = @ + (IF stmt \in {"COMMIT", "ROLLBACK"} THEN 1 ELSE 0),
              !.writes = @ + (IF stmt \in {"UPDATE", "INSERT"} THEN 1 ELSE 0)]

\* the request goes on to await statement `next`
Goto(r, next, loc, h) ==
    /\ pc' = [pc EXCEPT ![r] = next]
    /\ local' = [local EXCEPT ![r] = loc]
    /\ hist' = [hist EXCEPT ![r] = h]
    /\ UNCHANGED <<req, resp, now>>

\* (variant: the response is sent and the handler does not return)
Respond_running(r, body, h) ==
    /\ resp' = [resp EXCEPT ![r] = body]
    /\ hist' = [hist EXCEPT ![r] = h]
    /\ UNCHANGED <<pc, req, local, now>>

\* res.status(status).json(body): the handler returns
Respond(r, body, h) ==
    /\ pc' = [pc EXCEPT ![r] = "done"]
    /\ resp' = [resp EXCEPT ![r] = body]
    /\ hist' = [hist EXCEPT ![r] = h]
    /\ UNCHANGED <<req, local, now>>

Error(status, error) ==
    [NoResp EXCEPT !.status = status, !.error = error]

\* the awaited promise rejects: control passes to the handler's catch block
Throw(r, message, h) ==
    Goto(r, "catch_ROLLBACK", [local[r] EXCEPT !.err = message], h)

\* ------------------------------------------------------------------------
\* Request inputs
\* ------------------------------------------------------------------------
\* req.body.amount values the guards let through: a number, a numeric string
\* and a boolean (Number(true) is 1)
AcceptedAmounts == { Num(600), Str("600"), Bool(TRUE) }

\* req.body.amount values the guards reject: zero, a negative number, a
\* string that is no number, and a missing field
RejectedAmounts == { Num(0), Num(0 - 5), Str("abc"), Undef }

\* the token's id and the body of a transfer: every pairing of the two users
\* (a user may name itself), a token whose user has no row, an unknown
\* recipient, and the bodies the guard rejects
TransferInputs ==
    { [uid |-> u, toUsername |-> Str(username(t)), amount |-> a] :
        u \in UserIds, t \in UserIds, a \in {Num(600), Bool(TRUE)} }
    \cup { [uid |-> BobId + 1, toUsername |-> Str("bob"), amount |-> Num(600)],
           [uid |-> AliceId, toUsername |-> Str("carol"), amount |-> Num(600)],
           [uid |-> AliceId, toUsername |-> Undef, amount |-> Num(600)] }
    \cup { [uid |-> AliceId, toUsername |-> Str("bob"), amount |-> a] :
             a \in RejectedAmounts }

\* the token's id and the body of a deposit or a withdrawal: each user with
\* each accepted amount, a token whose user has no row, an amount equal to
\* the balance, and the bodies the guard rejects
AmountInputs ==
    { [uid |-> u, amount |-> a] : u \in UserIds, a \in AcceptedAmounts }
    \cup { [uid |-> BobId + 1, amount |-> Num(600)],
           [uid |-> BobId, amount |-> Num(BobBalance)] }
    \cup { [uid |-> AliceId, amount |-> a] : a \in RejectedAmounts }

\* the guard of /api/transfer and /api/transfer-fail
InvalidTransferInput(toUsername, amount) ==
    Falsy(toUsername) \/ Falsy(amount) \/ isNaN(amount) \/ LeqZero(amount)

\* the guard of /api/deposit-tx and /api/withdraw-tx
InvalidAmount(amount) ==
    Falsy(amount) \/ isNaN(amount) \/ LeqZero(amount)

\* (variants of the comparison)
InsufficientFunds_reversed(balance, amount) == balance > Number(amount)

InsufficientFunds_strict(balance, amount) == balance <= Number(amount)

\* fromUser.balance < amount

InsufficientFunds(balance, amount) == balance < Number(amount)

\* note TEXT: a fixed text, or a template filled with the request's values
Note(text) ==
    [text |-> text, amount |-> Undef, from |-> "", to |-> "", message |-> ""]

TransferNote(amount, from, to) ==
    [text |-> "transfer ${amount} from ${from} to ${to}",
     amount |-> amount, from |-> from, to |-> to, message |-> ""]

ErrorNote(message) ==
    [text |-> "error: ${message}",
     amount |-> Undef, from |-> "", to |-> "", message |-> message]

\* the request arrives: the handler runs up to its first await
Arrive(r, kind, uid, toUsername, amount, invalid, error, first) ==
    /\ req' = [req EXCEPT ![r] = [kind |-> kind, uid |-> uid,
                                  toUsername |-> toUsername, amount |-> amount,
                                  userId |-> Undef]]
    /\ IF invalid
       THEN /\ pc' = [pc EXCEPT ![r] = "done"]
            /\ resp' = [resp EXCEPT ![r] = Error(400, error)]
       ELSE /\ pc' = [pc EXCEPT ![r] = first]
            /\ UNCHANGED resp
    /\ UNCHANGED <<dbvars, now, faults, local, hist>>

At(r, kind, stmt) == req[r].kind = kind /\ pc[r] = stmt

\* ------------------------------------------------------------------------
\* POST /api/transfer
\* ------------------------------------------------------------------------
transfer_request(r) ==
    /\ pc[r] = "idle"
    /\ \E inp \in TransferInputs :
            Arrive(r, "transfer", inp.uid, inp.toUsername, inp.amount,
                   InvalidTransferInput(inp.toUsername, inp.amount), "Invalid input",
                   "findUserByUsername")

\* const toUser = await findUserByUsername(toUsername)
transfer_findUserByUsername(r) ==
    /\ At(r, "transfer", "findUserByUsername")
    /\ LET h == Issued(hist[r], "SELECT")
           toUser == findUserByUsername(conn, req[r].toUsername)
       IN \/ /\ UNCHANGED <<dbvars, faults>>
             /\ IF toUser = NoRow
                THEN Respond(r, Error(404, "Recipient not found"), h)
                ELSE Goto(r, "BEGIN", [local[r] EXCEPT !.toUser = toUser], h)
          \/ /\ Fault
             /\ Throw(r, "fault", h)

\* await execAsync('BEGIN TRANSACTION;')
transfer_BEGIN(r) ==
    /\ At(r, "transfer", "BEGIN")
    /\ LET h == Issued(hist[r], "BEGIN")
       IN \/ /\ ExecBegin(r)
             /\ UNCHANGED faults
             /\ Goto(r, "SELECT_from", local[r], [h EXCEPT !.opened = TRUE])
          \/ /\ inTx
             /\ UNCHANGED <<dbvars, faults>>
             /\ Throw(r, "cannot start a transaction within a transaction", h)
          \/ /\ Fault
             /\ Throw(r, "fault", h)

\* const fromUser = await getAsync('SELECT * FROM users WHERE id = ?', [fromUserId])
transfer_SELECT_from(r) ==
    /\ At(r, "transfer", "SELECT_from")
    /\ LET h == Issued(hist[r], "SELECT")
       IN \/ /\ UNCHANGED <<dbvars, faults>>
             /\ Goto(r, "SELECT_to",
                     [local[r] EXCEPT !.fromUser = Row(conn, req[r].uid)], h)
          \/ /\ Fault
             /\ Throw(r, "fault", h)

\* (variant: the row of the name lookup is used in place of the row read
\* inside the transaction)
transfer_SELECT_to_stale(r) ==
    /\ At(r, "transfer", "SELECT_to")
    /\ LET h == Issued(hist[r], "SELECT")
           fromUser == local[r].fromUser
           freshToUser == local[r].toUser
           amount == req[r].amount
       IN \/ /\ UNCHANGED <<dbvars, faults>>
             /\ IF fromUser = NoRow
                THEN Goto(r, "ROLLBACK_notfound",
                          [local[r] EXCEPT !.freshToUser = freshToUser], h)
                ELSE IF InsufficientFunds(fromUser.balance, amount)
                THEN Goto(r, "INSERT_insufficient",
                          [local[r] EXCEPT !.freshToUser = freshToUser],
                          [h EXCEPT !.checked = TRUE])
                ELSE Goto(r, "UPDATE_from",
                          [local[r] EXCEPT
                             !.freshToUser = freshToUser,
                             !.newFromBal = fromUser.balance - Number(amount),
                             !.newToBal = freshToUser.balance + Number(amount)],
                          [h EXCEPT !.checked = TRUE])
          \/ /\ Fault
             /\ Throw(r, "fault", h)

\* const freshToUser = await getAsync(..., [toUser.id]), then the checks and
\* the two new balances
transfer_SELECT_to(r) ==
    /\ At(r, "transfer", "SELECT_to")
    /\ LET h == Issued(hist[r], "SELECT")
           fromUser == local[r].fromUser
           freshToUser == Row(conn, local[r].toUser.id)
           amount == req[r].amount
       IN \/ /\ UNCHANGED <<dbvars, faults>>
             /\ IF fromUser = NoRow
                THEN Goto(r, "ROLLBACK_notfound",
                          [local[r] EXCEPT !.freshToUser = freshToUser], h)
                ELSE IF InsufficientFunds(fromUser.balance, amount)
                THEN Goto(r, "INSERT_insufficient",
                          [local[r] EXCEPT !.freshToUser = freshToUser],
                          [h EXCEPT !.checked = TRUE])
                ELSE Goto(r, "UPDATE_from",
                          [local[r] EXCEPT
                             !.freshToUser = freshToUser,
                             !.newFromBal = fromUser.balance - Number(amount),
                             !.newToBal = freshToUser.balance + Number(amount)],
                          [h EXCEPT !.checked = TRUE])
          \/ /\ Fault
             /\ Throw(r, "fault", h)

\* if (!fromUser) { await execAsync('ROLLBACK;'); return 404 }
transfer_ROLLBACK_notfound(r) ==
    /\ At(r, "transfer", "ROLLBACK_notfound")
    /\ LET h == Issued(hist[r], "ROLLBACK")
       IN \/ /\ ExecRollback
             /\ UNCHANGED faults
             /\ Respond(r, Error(404, "Sender not found"), h)
          \/ /\ ~inTx
             /\ UNCHANGED <<dbvars, faults>>
             /\ Throw(r, "cannot rollback - no transaction is active", h)
          \/ /\ Fault
             /\ Throw(r, "fault", [h EXCEPT !.endFault = TRUE])

\* await insertTransactionRecord({... status: 'rolledback', note: 'insufficient funds'})
transfer_INSERT_insufficient(r) ==
    /\ At(r, "transfer", "INSERT_insufficient")
    /\ LET h == Issued(hist[r], "INSERT")
           tx == Tx("transfer", req[r].uid, local[r].toUser.id,
                    Number(req[r].amount), "rolledback", Note("insufficient funds"))
       IN \/ /\ ForeignKeysOk(tx)
             /\ RunWrite(insertTransactionRecord(conn, tx))
             /\ UNCHANGED faults
             /\ Goto(r, "ROLLBACK_insufficient", local[r], h)
          \/ /\ ~ForeignKeysOk(tx)
             /\ UNCHANGED <<dbvars, faults>>
             /\ Throw(r, "FOREIGN KEY constraint failed", h)
          \/ /\ Fault
             /\ Throw(r, "fault", h)

\* await execAsync('ROLLBACK;'); return 400 'Insufficient funds'
transfer_ROLLBACK_insufficient(r) ==
    /\ At(r, "transfer", "ROLLBACK_insufficient")
    /\ LET h == Issued(hist[r], "ROLLBACK")
       IN \/ /\ ExecRollback
             /\ UNCHANGED faults
             /\ Respond(r, Error(400, "Insufficient funds"), h)
          \/ /\ ~inTx
             /\ UNCHANGED <<dbvars, faults>>
             /\ Throw(r, "cannot rollback - no transaction is active", h)
          \/ /\ Fault
             /\ Throw(r, "fault", [h EXCEPT !.endFault = TRUE])

\* the write of request r's debit or credit, remembered with the data it
\* is committed or rolled back with
Applied(db, r, side) == [db EXCEPT !.applied = @ \cup {<<r, side>>}]

\* await runAsync('UPDATE users SET balance = ? WHERE id = ?', [newFromBal, fromUser.id])
transfer_UPDATE_from(r) ==
    /\ At(r, "transfer", "UPDATE_from")
    /\ LET h == Issued(hist[r], "UPDATE")
       IN \/ /\ RunWrite(Applied(updateBalance(conn, local[r].fromUser.id,
                                                local[r].newFromBal), r, "debit"))
             /\ UNCHANGED faults
             /\ Goto(r, "UPDATE_to", local[r], h)
          \/ /\ Fault
             /\ Throw(r, "fault", h)

\* await runAsync('UPDATE users SET balance = ? WHERE id = ?', [newToBal, freshToUser.id])
transfer_UPDATE_to(r) ==
    /\ At(r, "transfer", "UPDATE_to")
    /\ LET h == Issued(hist[r], "UPDATE")
       IN \/ /\ RunWrite(Applied(updateBalance(conn, local[r].freshToUser.id,
                                                local[r].newToBal), r, "credit"))
             /\ UNCHANGED faults
             /\ Goto(r, "INSERT_committed", local[r], h)
          \/ /\ Fault
             /\ Throw(r, "fault", [h EXCEPT !.midFault = TRUE, !.lateFault = TRUE])

\* await insertTransactionRecord({... status: 'committed', note: `transfer ...`})
transfer_INSERT_committed(r) ==
    /\ At(r, "transfer", "INSERT_committed")
    /\ LET h == Issued(hist[r], "INSERT")
           tx == Tx("transfer", local[r].fromUser.id, local[r].freshToUser.id,
                    Number(req[r].amount), "committed",
                    TransferNote(req[r].amount, local[r].fromUser.username,
                                 local[r].freshToUser.username))
       IN \/ /\ ForeignKeysOk(tx)
             /\ RunWrite(insertTransactionRecord(conn, tx))
             /\ UNCHANGED faults
             /\ Goto(r, "COMMIT", local[r], h)
          \/ /\ ~ForeignKeysOk(tx)
             /\ UNCHANGED <<dbvars, faults>>
             /\ Throw(r, "FOREIGN KEY constraint failed", h)
          \/ /\ Fault
             /\ Throw(r, "fault", [h EXCEPT !.lateFault = TRUE])

\* await execAsync('COMMIT;'); res.json({ fromBalance, toBalance })
transfer_COMMIT(r) ==
    /\ At(r, "transfer", "COMMIT")
    /\ LET h == Issued(hist[r], "COMMIT")
       IN \/ /\ ExecCommit
             /\ UNCHANGED faults
             /\ Respond(r, [NoResp EXCEPT !.status = 200,
                                          !.fromBalance = local[r].newFromBal,
                                          !.toBalance = local[r].newToBal], h)
          \/ /\ ~inTx
             /\ UNCHANGED <<dbvars, faults>>
             /\ Throw(r, "cannot commit - no transaction is active", h)
          \/ /\ Fault
             /\ Throw(r, "fault", [h EXCEPT !.lateFault = TRUE])

\* catch (err) { try { await execAsync('ROLLBACK;'); ...
transfer_catch_ROLLBACK(r) ==
    /\ At(r, "transfer", "catch_ROLLBACK")
    /\ LET h == Issued(hist[r], "ROLLBACK")
           failed == Error(500, "Transfer failed, rolled back")
       IN \/ /\ ExecRollback
             /\ UNCHANGED faults
             /\ Goto(r, "catch_INSERT", local[r], h)
          \/ /\ ~inTx
             /\ UNCHANGED <<dbvars, faults>>
             /\ Respond(r, failed, h)
          \/ /\ Fault
             /\ Respond(r, failed, [h EXCEPT !.endFault = TRUE])

\* ... try { await insertTransactionRecord({... to_user: null, status: 'rolledback',
\* note: `error: ${err.message}`}) } catch (recErr) {} } res.status(500)
transfer_catch_INSERT(r) ==
    /\ At(r, "transfer", "catch_INSERT")
    /\ LET h == Issued(hist[r], "INSERT")
           failed == Error(500, "Transfer failed, rolled back")
           tx == Tx("transfer", req[r].uid, NULL, Number(req[r].amount),
                    "rolledback", ErrorNote(local[r].err))
       IN \/ /\ ForeignKeysOk(tx)
             /\ RunWrite(insertTransactionRecord(conn, tx))
             /\ UNCHANGED faults
             /\ Respond(r, failed, h)
          \/ /\ ~ForeignKeysOk(tx)
             /\ UNCHANGED <<dbvars, faults>>
             /\ Respond(r, failed, h)
          \/ /\ Fault
             /\ Respond(r, failed, h)

transfer(r) ==
    \/ transfer_request(r)
    \/ transfer_findUserByUsername(r)
    \/ transfer_BEGIN(r)
    \/ transfer_SELECT_from(r)
    \/ transfer_SELECT_to(r)
    \/ transfer_ROLLBACK_notfound(r)
    \/ transfer_INSERT_insufficient(r)
    \/ transfer_ROLLBACK_insufficient(r)
    \/ transfer_UPDATE_from(r)
    \/ transfer_UPDATE_to(r)
    \/ transfer_INSERT_committed(r)
    \/ transfer_COMMIT(r)
    \/ transfer_catch_ROLLBACK(r)
    \/ transfer_catch_INSERT(r)

\* ------------------------------------------------------------------------
\* POST /api/transfer-fail
\* ------------------------------------------------------------------------
transferFail_request(r) ==
    /\ pc[r] = "idle"
    /\ \E inp \in TransferInputs :
            Arrive(r, "transfer-fail", inp.uid, inp.toUsername, inp.amount,
                   InvalidTransferInput(inp.toUsername, inp.amount), "Invalid input",
                   "findUserByUsername")

\* const toUser = await findUserByUsername(toUsername)
transferFail_findUserByUsername(r) ==
    /\ At(r, "transfer-fail", "findUserByUsername")
    /\ LET h == Issued(hist[r], "SELECT")
           toUser == findUserByUsername(conn, req[r].toUsername)
       IN \/ /\ UNCHANGED <<dbvars, faults>>
             /\ IF toUser = NoRow
                THEN Respond(r, Error(404, "Recipient not found"), h)
                ELSE Goto(r, "BEGIN", [local[r] EXCEPT !.toUser = toUser], h)
          \/ /\ Fault
             /\ Throw(r, "fault", h)

\* await execAsync('BEGIN TRANSACTION;')
transferFail_BEGIN(r) ==
    /\ At(r, "transfer-fail", "BEGIN")
    /\ LET h == Issued(hist[r], "BEGIN")
       IN \/ /\ ExecBegin(r)
             /\ UNCHANGED faults
             /\ Goto(r, "SELECT_from", local[r], [h EXCEPT !.opened = TRUE])
          \/ /\ inTx
             /\ UNCHANGED <<dbvars, faults>>
             /\ Throw(r, "cannot start a transaction within a transaction", h)
          \/ /\ Fault
             /\ Throw(r, "fault", h)

\* const fromUser = await getAsync(..., [fromUserId]), then the checks and
\* the new balance of the sender
transferFail_SELECT_from(r) ==
    /\ At(r, "transfer-fail", "SELECT_from")
    /\ LET h == Issued(hist[r], "SELECT")
           fromUser == Row(conn, req[r].uid)
           amount == req[r].amount
       IN \/ /\ UNCHANGED <<dbvars, faults>>
             /\ IF fromUser = NoRow
                THEN Goto(r, "ROLLBACK_notfound",
                          [local[r] EXCEPT !.fromUser = fromUser], h)
                ELSE IF InsufficientFunds(fromUser.balance, amount)
                THEN Goto(r, "INSERT_insufficient",
                          [local[r] EXCEPT !.fromUser = fromUser],
                          [h EXCEPT !.checked = TRUE])
                ELSE Goto(r, "UPDATE_from",
                          [local[r] EXCEPT
                             !.fromUser = fromUser,
                             !.newFromBal = fromUser.balance - Number(amount)],
                          [h EXCEPT !.checked = TRUE])
          \/ /\ Fault
             /\ Throw(r, "fault", h)

\* if (!fromUser) { await execAsync('ROLLBACK;'); return 404 }
transferFail_ROLLBACK_notfound(r) ==
    /\ At(r, "transfer-fail", "ROLLBACK_notfound")
    /\ LET h == Issued(hist[r], "ROLLBACK")
       IN \/ /\ ExecRollback
             /\ UNCHANGED faults
             /\ Respond(r, Error(404, "Sender not found"), h)
          \/ /\ ~inTx
             /\ UNCHANGED <<dbvars, faults>>
             /\ Throw(r, "cannot rollback - no transaction is active", h)
          \/ /\ Fault
             /\ Throw(r, "fault", [h EXCEPT !.endFault = TRUE])

\* await insertTransactionRecord({... note: 'insufficient funds (fail demo)'})
transferFail_INSERT_insufficient(r) ==
    /\ At(r, "transfer-fail", "INSERT_insufficient")
    /\ LET h == Issued(hist[r], "INSERT")
           tx == Tx("transfer", req[r].uid, local[r].toUser.id,
                    Number(req[r].amount), "rolledback",
                    Note("insufficient funds (fail demo)"))
       IN \/ /\ ForeignKeysOk(tx)
             /\ RunWrite(insertTransactionRecord(conn, tx))
             /\ UNCHANGED faults
             /\ Goto(r, "ROLLBACK_insufficient", local[r], h)
          \/ /\ ~ForeignKeysOk(tx)
             /\ UNCHANGED <<dbvars, faults>>
             /\ Throw(r, "FOREIGN KEY constraint failed", h)
          \/ /\ Fault
             /\ Throw(r, "fault", h)

\* await execAsync('ROLLBACK;'); return 400 'Insufficient funds'
transferFail_ROLLBACK_insufficient(r) ==
    /\ At(r, "transfer-fail", "ROLLBACK_insufficient")
    /\ LET h == Issued(hist[r], "ROLLBACK")
       IN \/ /\ ExecRollback
             /\ UNCHANGED faults
             /\ Respond(r, Error(400, "Insufficient funds"), h)
          \/ /\ ~inTx
             /\ UNCHANGED <<dbvars, faults>>
             /\ Throw(r, "cannot rollback - no transaction is active", h)
          \/ /\ Fault
             /\ Throw(r, "fault", [h EXCEPT !.endFault = TRUE])

\* await runAsync('UPDATE users SET balance = ? WHERE id = ?', [newFromBal, fromUser.id])
transferFail_UPDATE_from(r) ==
    /\ At(r, "transfer-fail", "UPDATE_from")
    /\ LET h == Issued(hist[r], "UPDATE")
       IN \/ /\ RunWrite(Applied(updateBalance(conn, local[r].fromUser.id,
                                                local[r].newFromBal), r, "debit"))
             /\ UNCHANGED faults
             /\ Goto(r, "INSERT_simulated", local[r], h)
          \/ /\ Fault
             /\ Throw(r, "fault", h)

\* await runAsync(`INSERT INTO transactions ...`, [..., 'rolledback',
\* 'simulated failure mid-transaction']); throw new Error('Simulated ...')
transferFail_INSERT_simulated(r) ==
    /\ At(r, "transfer-fail", "INSERT_simulated")
    /\ LET h == Issued(hist[r], "INSERT")
           tx == Tx("transfer", local[r].fromUser.id, local[r].toUser.id,
                    Number(req[r].amount), "rolledback",
                    Note("simulated failure mid-transaction"))
       IN \/ /\ ForeignKeysOk(tx)
             /\ RunWrite(insertTransactionRecord(conn, tx))
             /\ UNCHANGED faults
             /\ Throw(r, "Simulated mid-transaction failure", [h EXCEPT !.midFault = TRUE])
          \/ /\ ~ForeignKeysOk(tx)
             /\ UNCHANGED <<dbvars, faults>>
             /\ Throw(r, "FOREIGN KEY constraint failed", [h EXCEPT !.midFault = TRUE])
          \/ /\ Fault
             /\ Throw(r, "fault", [h EXCEPT !.midFault = TRUE])

\* catch (err) { try { await execAsync('ROLLBACK;') } catch (rbErr) {} return 500 }
transferFail_catch_ROLLBACK(r) ==
    /\ At(r, "transfer-fail", "catch_ROLLBACK")
    /\ LET h == Issued(hist[r], "ROLLBACK")
           failed == Error(500, "Simulated failure occurred - transaction rolled back")
       IN \/ /\ ExecRollback
             /\ UNCHANGED faults
             /\ Respond(r, failed, h)
          \/ /\ ~inTx
             /\ UNCHANGED <<dbvars, faults>>
             /\ Respond(r, failed, h)
          \/ /\ Fault
             /\ Respond(r, failed, [h EXCEPT !.endFault = TRUE])

transferFail(r) ==
    \/ transferFail_request(r)
    \/ transferFail_findUserByUsername(r)
    \/ transferFail_BEGIN(r)
    \/ transferFail_SELECT_from(r)
    \/ transferFail_ROLLBACK_notfound(r)
    \/ transferFail_INSERT_insufficient(r)
    \/ transferFail_ROLLBACK_insufficient(r)
    \/ transferFail_UPDATE_from(r)
    \/ transferFail_INSERT_simulated(r)
    \/ transferFail_catch_ROLLBACK(r)

\* ------------------------------------------------------------------------
\* POST /api/deposit-tx
\* ------------------------------------------------------------------------
deposit_request(r) ==
    /\ pc[r] = "idle"
    /\ \E inp \in AmountInputs :
            Arrive(r, "deposit", inp.uid, Undef, inp.amount,
                   InvalidAmount(inp.amount), "Invalid amount", "BEGIN")

\* await execAsync('BEGIN TRANSACTION;')
deposit_BEGIN(r) ==
    /\ At(r, "deposit", "BEGIN")
    /\ LET h == Issued(hist[r], "BEGIN")
       IN \/ /\ ExecBegin(r)
             /\ UNCHANGED faults
             /\ Goto(r, "SELECT_user", local[r], [h EXCEPT !.opened = TRUE])
          \/ /\ inTx
             /\ UNCHANGED <<dbvars, faults>>
             /\ Throw(r, "cannot start a transaction within a transaction", h)
          \/ /\ Fault
             /\ Throw(r, "fault", h)

\* const user = await getAsync(..., [uid]); the row is kept in fromUser and
\* newBal in newFromBal
deposit_SELECT_user(r) ==
    /\ At(r, "deposit", "SELECT_user")
    /\ LET h == Issued(hist[r], "SELECT")
           user == Row(conn, req[r].uid)
       IN \/ /\ UNCHANGED <<dbvars, faults>>
             /\ IF user = NoRow
                THEN Goto(r, "ROLLBACK_notfound",
                          [local[r] EXCEPT !.fromUser = user], h)
                ELSE Goto(r, "UPDATE_user",
                          [local[r] EXCEPT
                             !.fromUser = user,
                             !.newFromBal = user.balance + Number(req[r].amount)],
                          [h EXCEPT !.checked = TRUE])
          \/ /\ Fault
             /\ Throw(r, "fault", h)

\* if (!user) { await execAsync('ROLLBACK;'); return 404 }
deposit_ROLLBACK_notfound(r) ==
    /\ At(r, "deposit", "ROLLBACK_notfound")
    /\ LET h == Issued(hist[r], "ROLLBACK")
       IN \/ /\ ExecRollback
             /\ UNCHANGED faults
             /\ Respond(r, Error(404, "User not found"), h)
          \/ /\ ~inTx
             /\ UNCHANGED <<dbvars, faults>>
             /\ Throw(r, "cannot rollback - no transaction is active", h)
          \/ /\ Fault
             /\ Throw(r, "fault", [h EXCEPT !.endFault = TRUE])

\* await runAsync('UPDATE users SET balance = ? WHERE id = ?', [newBal, uid])
deposit_UPDATE_user(r) ==
    /\ At(r, "deposit", "UPDATE_user")
    /\ LET h == Issued(hist[r], "UPDATE")
       IN \/ /\ RunWrite(Applied(updateBalance(conn, req[r].uid,
                                                local[r].newFromBal), r, "credit"))
             /\ UNCHANGED faults
             /\ Goto(r, "INSERT_committed", local[r], h)
          \/ /\ Fault
             /\ Throw(r, "fault", h)

\* await insertTransactionRecord({type: 'deposit', from_user: null, to_user: uid, ...})
deposit_INSERT_committed(r) ==
    /\ At(r, "deposit", "INSERT_committed")
    /\ LET h == Issued(hist[r], "INSERT")
           tx == Tx("deposit", NULL, req[r].uid, Number(req[r].amount),
                    "committed", Note("deposit via deposit-tx"))
       IN \/ /\ ForeignKeysOk(tx)
             /\ RunWrite(insertTransactionRecord(conn, tx))
             /\ UNCHANGED faults
             /\ Goto(r, "COMMIT", local[r], h)
          \/ /\ ~ForeignKeysOk(tx)
             /\ UNCHANGED <<dbvars, faults>>
             /\ Throw(r, "FOREIGN KEY constraint failed", h)
          \/ /\ Fault
             /\ Throw(r, "fault", [h EXCEPT !.lateFault = TRUE])

\* await execAsync('COMMIT;'); res.json({ balance: newBal })
deposit_COMMIT(r) ==
    /\ At(r, "deposit", "COMMIT")
    /\ LET h == Issued(hist[r], "COMMIT")
       IN \/ /\ ExecCommit
             /\ UNCHANGED faults
             /\ Respond(r, [NoResp EXCEPT !.status = 200,
                                          !.fromBalance = local[r].newFromBal], h)
          \/ /\ ~inTx
             /\ UNCHANGED <<dbvars, faults>>
             /\ Throw(r, "cannot commit - no transaction is active", h)
          \/ /\ Fault
             /\ Throw(r, "fault", [h EXCEPT !.lateFault = TRUE])

\* catch (err) { try { await execAsync('ROLLBACK;') } catch (e) {} res.status(500) }
deposit_catch_ROLLBACK(r) ==
    /\ At(r, "deposit", "catch_ROLLBACK")
    /\ LET h == Issued(hist[r], "ROLLBACK")
           failed == Error(500, "Deposit failed, rolled back")
       IN \/ /\ ExecRollback
             /\ UNCHANGED faults
             /\ Respond(r, failed, h)
          \/ /\ ~inTx
             /\ UNCHANGED <<dbvars, faults>>
             /\ Respond(r, failed, h)
          \/ /\ Fault
             /\ Respond(r, failed, [h EXCEPT !.endFault = TRUE])

deposit(r) ==
    \/ deposit_request(r)
    \/ deposit_BEGIN(r)
    \/ deposit_SELECT_user(r)
    \/ deposit_ROLLBACK_notfound(r)
    \/ deposit_UPDATE_user(r)
    \/ deposit_INSERT_committed(r)
    \/ deposit_COMMIT(r)
    \/ deposit_catch_ROLLBACK(r)

\* ------------------------------------------------------------------------
\* POST /api/withdraw-tx
\* ------------------------------------------------------------------------
withdraw_request(r) ==
    /\ pc[r] = "idle"
    /\ \E inp \in AmountInputs :
            Arrive(r, "withdraw", inp.uid, Undef, inp.amount,
                   InvalidAmount(inp.amount), "Invalid amount", "BEGIN")

\* await execAsync('BEGIN TRANSACTION;')
withdraw_BEGIN(r) ==
    /\ At(r, "withdraw", "BEGIN")
    /\ LET h == Issued(hist[r], "BEGIN")
       IN \/ /\ ExecBegin(r)
             /\ UNCHANGED faults
             /\ Goto(r, "SELECT_user", local[r], [h EXCEPT !.opened = TRUE])
          \/ /\ inTx
             /\ UNCHANGED <<dbvars, faults>>
             /\ Throw(r, "cannot start a transaction within a transaction", h)
          \/ /\ Fault
             /\ Throw(r, "fault", h)

\* const user = await getAsync(..., [uid]), then the checks and newBal; the
\* row is kept in fromUser and newBal in newFromBal
withdraw_SELECT_user(r) ==
    /\ At(r, "withdraw", "SELECT_user")
    /\ LET h == Issued(hist[r], "SELECT")
           user == Row(conn, req[r].uid)
           amount == req[r].amount
       IN \/ /\ UNCHANGED <<dbvars, faults>>
             /\ IF user = NoRow
                THEN Goto(r, "ROLLBACK_notfound",
                          [local[r] EXCEPT !.fromUser = user], h)
                ELSE IF InsufficientFunds(user.balance, amount)
                THEN Goto(r, "INSERT_insufficient",
                          [local[r] EXCEPT !.fromUser = user],
                          [h EXCEPT !.checked = TRUE])
                ELSE Goto(r, "UPDATE_user",
                          [local[r] EXCEPT
                             !.fromUser = user,
                             !.newFromBal = user.balance - Number(amount)],
                          [h EXCEPT !.checked = TRUE])
          \/ /\ Fault
             /\ Throw(r, "fault", h)

\* if (!user) { await execAsync('ROLLBACK;'); return 404 }
withdraw_ROLLBACK_notfound(r) ==
    /\ At(r, "withdraw", "ROLLBACK_notfound")
    /\ LET h == Issued(hist[r], "ROLLBACK")
       IN \/ /\ ExecRollback
             /\ UNCHANGED faults
             /\ Respond(r, Error(404, "User not found"), h)
          \/ /\ ~inTx
             /\ UNCHANGED <<dbvars, faults>>
             /\ Throw(r, "cannot rollback - no transaction is active", h)
          \/ /\ Fault
             /\ Throw(r, "fault", [h EXCEPT !.endFault = TRUE])

\* await insertTransactionRecord({type: 'withdraw', ... status: 'rolledback',
\* note: 'insufficient funds for withdraw'})
withdraw_INSERT_insufficient(r) ==
    /\ At(r, "withdraw", "INSERT_insufficient")
    /\ LET h == Issued(hist[r], "INSERT")
           tx == Tx("withdraw", req[r].uid, NULL, Number(req[r].amount),
                    "rolledback", Note("insufficient funds for withdraw"))
       IN \/ /\ ForeignKeysOk(tx)
             /\ RunWrite(insertTransactionRecord(conn, tx))
             /\ UNCHANGED faults
             /\ Goto(r, "ROLLBACK_insufficient", local[r], h)
          \/ /\ ~ForeignKeysOk(tx)
             /\ UNCHANGED <<dbvars, faults>>
             /\ Throw(r, "FOREIGN KEY constraint failed", h)
          \/ /\ Fault
             /\ Throw(r, "fault", h)

\* await execAsync('ROLLBACK;'); return 400 'Insufficient funds'
withdraw_ROLLBACK_insufficient(r) ==
    /\ At(r, "withdraw", "ROLLBACK_insufficient")
    /\ LET h == Issued(hist[r], "ROLLBACK")
       IN \/ /\ ExecRollback
             /\ UNCHANGED faults
             /\ Respond(r, Error(400, "Insufficient funds"), h)
          \/ /\ ~inTx
             /\ UNCHANGED <<dbvars, faults>>
             /\ Throw(r, "cannot rollback - no transaction is active", h)
          \/ /\ Fault
             /\ Throw(r, "fault", [h EXCEPT !.endFault = TRUE])

\* await runAsync('UPDATE users SET balance = ? WHERE id = ?', [newBal, uid])
withdraw_UPDATE_user(r) ==
    /\ At(r, "withdraw", "UPDATE_user")
    /\ LET h == Issued(hist[r], "UPDATE")
       IN \/ /\ RunWrite(Applied(updateBalance(conn, req[r].uid,
                                                local[r].newFromBal), r, "debit"))
             /\ UNCHANGED faults
             /\ Goto(r, "INSERT_committed", local[r], h)
          \/ /\ Fault
             /\ Throw(r, "fault", h)

\* await insertTransactionRecord({type: 'withdraw', from_user: uid, to_user: null, ...})
withdraw_INSERT_committed(r) ==
    /\ At(r, "withdraw", "INSERT_committed")
    /\ LET h == Issued(hist[r], "INSERT")
           tx == Tx("withdraw", req[r].uid, NULL, Number(req[r].amount),
                    "committed", Note("withdraw via withdraw-tx"))
       IN \/ /\ ForeignKeysOk(tx)
             /\ RunWrite(insertTransactionRecord(conn, tx))
             /\ UNCHANGED faults
             /\ Goto(r, "COMMIT", local[r], h)
          \/ /\ ~ForeignKeysOk(tx)
             /\ UNCHANGED <<dbvars, faults>>
             /\ Throw(r, "FOREIGN KEY constraint failed", h)
          \/ /\ Fault
             /\ Throw(r, "fault", [h EXCEPT !.lateFault = TRUE])

\* await execAsync('COMMIT;'); res.json({ balance: newBal })
withdraw_COMMIT(r) ==
    /\ At(r, "withdraw", "COMMIT")
    /\ LET h == Issued(hist[r], "COMMIT")
       IN \/ /\ ExecCommit
             /\ UNCHANGED faults
             /\ Respond(r, [NoResp EXCEPT !.status = 200,
                                          !.fromBalance = local[r].newFromBal], h)
          \/ /\ ~inTx
             /\ UNCHANGED <<dbvars, faults>>
             /\ Throw(r, "cannot commit - no transaction is active", h)
          \/ /\ Fault
             /\ Throw(r, "fault", [h EXCEPT !.lateFault = TRUE])

\* catch (err) { try { await execAsync('ROLLBACK;') } catch (e) {} res.status(500) }
withdraw_catch_ROLLBACK(r) ==
    /\ At(r, "withdraw", "catch_ROLLBACK")
    /\ LET h == Issued(hist[r], "ROLLBACK")
           failed == Error(500, "Withdraw failed, rolled back")
       IN \/ /\ ExecRollback
             /\ UNCHANGED faults
             /\ Respond(r, failed, h)
          \/ /\ ~inTx
             /\ UNCHANGED <<dbvars, faults>>
             /\ Respond(r, failed, h)
          \/ /\ Fault
             /\ Respond(r, failed, [h EXCEPT !.endFault = TRUE])

withdraw(r) ==
    \/ withdraw_request(r)
    \/ withdraw_BEGIN(r)
    \/ withdraw_SELECT_user(r)
    \/ withdraw_ROLLBACK_notfound(r)
    \/ withdraw_INSERT_insufficient(r)
    \/ withdraw_ROLLBACK_insufficient(r)
    \/ withdraw_UPDATE_user(r)
    \/ withdraw_INSERT_committed(r)
    \/ withdraw_COMMIT(r)
    \/ withdraw_catch_ROLLBACK(r)

\* ------------------------------------------------------------------------
\* GET /api/balance, GET /api/users, GET /api/transactions
\* ------------------------------------------------------------------------
\* SELECT * FROM users WHERE id = ?
findUserById(db, id) == Row(db, id)

\* a GET request arrives: the handler runs up to its only await
Get(r, kind, uid, userId, first) ==
    /\ req' = [req EXCEPT ![r] = [NoReq EXCEPT !.kind = kind, !.uid = uid,
                                               !.userId = userId]]
    /\ pc' = [pc EXCEPT ![r] = first]
    /\ UNCHANGED <<dbvars, now, faults, local, resp, hist>>

\* req.query.userId: absent, or the id of a user as the URL's text
UserIdQueries == {Undef, Str("1"), Str("2")}

balance_request(r) ==
    /\ pc[r] = "idle"
    /\ \E uid \in UserIds \cup {BobId + 1} :
            Get(r, "balance", uid, Undef, "findUserById")

\* const user = await findUserById(req.user.id); res.json({ balance: user.balance })
balance_findUserById(r) ==
    /\ At(r, "balance", "findUserById")
    /\ LET h == Issued(hist[r], "SELECT")
           user == findUserById(conn, req[r].uid)
       IN \/ /\ UNCHANGED <<dbvars, faults>>
             /\ IF user = NoRow
                THEN Respond(r, Error(404, "User not found"), h)
                ELSE Respond(r, [NoResp EXCEPT !.status = 200,
                                               !.fromBalance = user.balance], h)
          \/ /\ Fault
             /\ Respond(r, Error(500, "server error"), h)

balance(r) ==
    \/ balance_request(r)
    \/ balance_findUserById(r)

users_request(r) ==
    /\ pc[r] = "idle"
    /\ Get(r, "users", NULL, Undef, "SELECT_users")

\* const users = await allAsync('SELECT id, username, balance FROM users')
users_SELECT_users(r) ==
    /\ At(r, "users", "SELECT_users")
    /\ LET h == Issued(hist[r], "SELECT")
           users == [i \in UserIds |-> Row(conn, i)]
       IN \/ /\ UNCHANGED <<dbvars, faults>>
             /\ Respond(r, [NoResp EXCEPT !.status = 200, !.rows = users], h)
          \/ /\ Fault
             /\ Respond(r, Error(500, "server error"), h)

users(r) ==
    \/ users_request(r)
    \/ users_SELECT_users(r)

\* FROM transactions t LEFT JOIN users u1 ON t.from_user = u1.id
\*                     LEFT JOIN users u2 ON t.to_user = u2.id
Joined(db, t) ==
    [ id            |-> t.id,
      type          |-> t.type,
      from_user     |-> t.from_user,
      to_user       |-> t.to_user,
      amount        |-> t.amount,
      status        |-> t.status,
      created_at    |-> t.created_at,
      note          |-> t.note,
      from_username |-> Row(db, t.from_user).username,
      to_username   |-> Row(db, t.to_user).username ]

\* WHERE t.from_user = ? OR t.to_user = ?   (NULL equals nothing)
Participates(t, userId) ==
    LET id == ToNumber(userId)
    IN /\ ~id.nan
       /\ \/ t.from_user # NULL /\ t.from_user = id.v
          \/ t.to_user # NULL /\ t.to_user = id.v

\* the ids of the rows the query of /api/transactions selects
Selected(db, userId) ==
    {i \in 1..Len(db.transactions) :
        Falsy(userId) \/ Participates(db.transactions[i], userId)}

\* ORDER BY t.created_at DESC: every order of the selected rows in which
\* created_at never increases; rows of the same second come in any order
OrderByCreatedAtDesc(db, userId) ==
    LET sel == Selected(db, userId)
        n == Cardinality(sel)
    IN {[k \in 1..n |-> Joined(db, db.transactions[o[k]])] :
          o \in {p \in [1..n -> sel] :
                   /\ \A i, j \in 1..n : i # j => p[i] # p[j]
                   /\ \A i, j \in 1..n :
                        i < j => db.transactions[p[i]].created_at
                                   >= db.transactions[p[j]].created_at}}

transactions_request(r) ==
    /\ pc[r] = "idle"
    /\ \E userId \in UserIdQueries :
            Get(r, "transactions", AliceId, userId, "SELECT_transactions")

\* const rows = await allAsync(`SELECT t.*, ... ORDER BY t.created_at DESC`)
transactions_SELECT_transactions(r) ==
    /\ At(r, "transactions", "SELECT_transactions")
    /\ LET h == Issued(hist[r], "SELECT")
       IN \/ /\ UNCHANGED <<dbvars, faults>>
             /\ \E rows \in OrderByCreatedAtDesc(conn, req[r].userId) :
                    Respond(r, [NoResp EXCEPT !.status = 200, !.rows = rows], h)
          \/ /\ Fault
             /\ Respond(r, Error(500, "server error"), h)

transactions(r) ==
    \/ transactions_request(r)
    \/ transactions_SELECT_transactions(r)

\* ------------------------------------------------------------------------
\* The server: requests arrive and their steps interleave, and time passes
\* ------------------------------------------------------------------------
\* a second passes on the database's clock
Tick ==
    /\ now < MaxClock
    /\ now' = now + 1
    /\ UNCHANGED <<dbvars, faults, pc, req, local, resp, hist>>

Next ==
    \/ \E r \in Requests :
          \/ transfer(r) \/ transferFail(r) \/ deposit(r) \/ withdraw(r)
          \/ balance(r) \/ users(r) \/ transactions(r)
    \/ Tick

Spec == Init /\ [][Next]_vars

\* a request that has arrived takes its next step: the statement it awaits
\* completes and the handler runs on to its next await or to its response
Proceed(r) ==
    /\ pc[r] # "idle"
    /\ \/ transfer(r) \/ transferFail(r) \/ deposit(r) \/ withdraw(r)
       \/ balance(r) \/ users(r) \/ transactions(r)

\* the connection executes every statement handed to it and calls back, and
\* the event loop runs every continuation: no request waits for ever
FairSpec == Spec /\ \A r \in Requests : WF_vars(Proceed(r))

\* ------------------------------------------------------------------------
\* Vocabulary of the properties
\* ------------------------------------------------------------------------
Started(r) == pc[r] # "idle"
Done(r) == pc[r] = "done"
Ok(r) == resp[r].status = 200

\* no request is in flight
Quiet == \A r \in Requests : pc[r] \in {"idle", "done"}

\* r is the only request that has arrived
Alone(r) == Started(r) /\ \A q \in Requests \ {r} : pc[q] = "idle"

\* the user a transfer's toUsername names, NULL if there is none
Recipient(q) == findUserByUsername(InitDb, q.toUsername).id

\* The balances after request q has run with no other request in flight and
\* no failing statement, from balances bal.
RunAlone(bal, q) ==
    LET n == Number(q.amount)
        to == Recipient(q)
    IN CASE q.kind = "deposit"
              /\ ~InvalidAmount(q.amount) /\ q.uid \in UserIds
              -> [bal EXCEPT ![q.uid] = @ + n]
         [] q.kind = "withdraw"
              /\ ~InvalidAmount(q.amount) /\ q.uid \in UserIds
              /\ ~InsufficientFunds(bal[q.uid], q.amount)
              -> [bal EXCEPT ![q.uid] = @ - n]
         [] q.kind = "transfer"
              /\ ~InvalidTransferInput(q.toUsername, q.amount)
              /\ q.uid \in UserIds /\ to \in UserIds
              /\ ~InsufficientFunds(bal[q.uid], q.amount)
              -> [[bal EXCEPT ![q.uid] = @ - n] EXCEPT ![to] = bal[to] + n]
         [] OTHER -> bal

RECURSIVE RunInOrder(_, _)
RunInOrder(bal, order) ==
    IF order = << >> THEN bal
    ELSE RunInOrder(RunAlone(bal, req[Head(order)]), Tail(order))

\* the sets of requests a serial run may consist of: every request that
\* arrived, except that one answered 500 may count as not having run
Runs ==
    {S \in SUBSET {r \in Requests : Started(r)} :
        \A r \in Requests : Started(r) /\ resp[r].status # 500 => r \in S}

\* every order in which the requests of S can run one at a time
Orders(S) ==
    LET n == Cardinality(S)
    IN {o \in [1..n -> S] : \A i, j \in 1..n : i # j => o[i] # o[j]}

SerialOutcomes ==
    UNION {{RunInOrder(InitDb.balance, o) : o \in Orders(S)} : S \in Runs}

\* ------------------------------------------------------------------------
\* Properties
\* ------------------------------------------------------------------------
Insufficient(r) == resp[r].status = 400 /\ resp[r].error = "Insufficient funds"

\* C1: atomic transfer.  Once a transfer has responded, the database file
\* holds its debit of the sender exactly if it holds its credit of the
\* recipient, whatever steps of other requests interleaved with its own
\* (stated for a recipient other than the sender, and for the runs in which
\* no statement fails for an external reason).
C1_TransferAtomic ==
    \A r \in Requests :
        /\ req[r].kind = "transfer" /\ req[r].uid # Recipient(req[r])
        /\ Done(r) /\ faults = 0
        => (<<r, "debit">> \in durable.applied <=> <<r, "credit">> \in durable.applied)

\* C2: conservation.  A transfer that returned success, with no other request
\* around it, leaves the sum of the sender's and the recipient's balance in
\* the database file what it was before; the recipient may be the sender.
C2_Conservation ==
    \A r \in Requests :
        req[r].kind = "transfer" /\ Ok(r) /\ Alone(r)
        => durable.balance[req[r].uid] + durable.balance[Recipient(req[r])]
           = InitDb.balance[req[r].uid] + InitDb.balance[Recipient(req[r])]

\* C3: non-negativity.  In every state, every balance in the database file,
\* and every balance a statement on the connection can read, is >= 0.
C3_NonNegative ==
    \A i \in UserIds : durable.balance[i] >= 0 /\ conn.balance[i] >= 0

\* C3 witness: one user withdrew or sent money, a second request of the same
\* user was then refused for insufficient funds, and both have responded.
C3_Witness ==
    \E r, q \in Requests :
        /\ r # q /\ req[r].uid = req[q].uid
        /\ req[r].kind \in {"withdraw", "transfer"} /\ Ok(r)
        /\ Insufficient(q)
        /\ durable.balance[req[r].uid] < InitDb.balance[req[r].uid]

\* C4: serialization safety.  When every request has responded and no
\* statement failed for an external reason, the balances in the database
\* file are those of running the same requests one at a time in some order
\* (a request answered 500 may count as not having run).
C4_Serializable ==
    Quiet /\ faults = 0 => durable.balance \in SerialOutcomes

\* C5: two concurrent transfers of the same sender to the same other user,
\* each for an amount the balance covers once but not twice: when both have
\* responded (and no statement failed for an external reason) exactly one
\* returned success, the other was refused for insufficient funds, and the
\* balances are those of one transfer.
C5_OneOfTwoTransfers ==
    \A r, q \in Requests :
        LET u == req[r].uid
            t == Recipient(req[r])
            n == Number(req[r].amount)
        IN /\ r # q /\ req[r] = req[q] /\ req[r].kind = "transfer"
           /\ u \in UserIds /\ t \in UserIds /\ u # t
           /\ ~InvalidTransferInput(req[r].toUsername, req[r].amount)
           /\ n <= InitDb.balance[u] /\ InitDb.balance[u] < 2 * n
           /\ Done(r) /\ Done(q) /\ faults = 0
           => /\ (Ok(r) /\ Insufficient(q)) \/ (Ok(q) /\ Insufficient(r))
              /\ durable.balance[u] = InitDb.balance[u] - n
              /\ durable.balance[t] = InitDb.balance[t] + n

\* C6: an error changes no balance.  When every request that arrived has
\* responded and each response is an error, the balances in the database
\* file are the initial ones (stated for the runs in which no statement
\* fails for an external reason).
C6_ErrorLeavesBalances ==
    Quiet /\ faults = 0 /\ (\A r \in Requests : Started(r) => ~Ok(r))
    => durable.balance = InitDb.balance

\* C7: exactly one record.  A deposit, withdrawal or transfer that got as far
\* as the sufficiency check, ran with no other request around it and with no
\* statement failing for an external reason, has left exactly one record in
\* the database file when it has responded, 'committed' exactly if a balance
\* changed.
C7_ExactlyOneRecord ==
    \A r \in Requests :
        /\ req[r].kind \in {"deposit", "withdraw", "transfer"}
        /\ Alone(r) /\ Done(r) /\ hist[r].checked /\ faults = 0
        => /\ Len(durable.transactions) = 1
           /\ durable.transactions[1].status = "committed"
                <=> durable.balance # InitDb.balance

\* C8: insufficient funds is recorded.  A withdrawal or transfer refused for
\* insufficient funds, with no other request around it, has changed no
\* balance and has left one 'rolledback' record with an insufficient-funds
\* note in the database file.
C8_InsufficientRecorded ==
    \A r \in Requests :
        /\ req[r].kind \in {"withdraw", "transfer"}
        /\ Alone(r) /\ Done(r) /\ Insufficient(r)
        => /\ durable.balance = InitDb.balance
           /\ Len(durable.transactions) = 1
           /\ durable.transactions[1].status = "rolledback"
           /\ durable.transactions[1].note.text
                \in {"insufficient funds", "insufficient funds for withdraw"}

\* C9: mid-transfer fault.  A transfer or transfer-fail request that failed
\* after the debit of the sender and before the credit of the recipient, with
\* no other request around it, has left the initial balances and exactly one
\* 'rolledback' record with a note in the database file when it has responded.
C9_MidFaultRolledBack ==
    \A r \in Requests :
        /\ req[r].kind \in {"transfer", "transfer-fail"}
        /\ Alone(r) /\ Done(r) /\ hist[r].midFault
        => /\ durable.balance = InitDb.balance
           /\ Len(durable.transactions) = 1
           /\ durable.transactions[1].status = "rolledback"
           /\ durable.transactions[1].note.text # ""

\* an amount that is a number, or a string that reads as one
Numeric(v) ==
    \/ v.t = "number"
    \/ v.t = "string" /\ v.s # "" /\ ~StringToNumber(v.s).nan

\* the inputs the claim calls invalid: amount missing, not numeric, zero or
\* negative; for a transfer also a missing recipient name
CalledInvalid(q) ==
    \/ q.amount.t = "undefined"
    \/ ~Numeric(q.amount)
    \/ Numeric(q.amount) /\ ToNumber(q.amount).v <= 0
    \/ q.kind = "transfer" /\ q.toUsername.t = "undefined"

\* C10: invalid input.  A deposit, withdrawal or transfer whose input is
\* invalid has been answered 400 on arrival and has issued no statement (no
\* BEGIN, no write to a balance, no record).
C10_InvalidRejected ==
    \A r \in Requests :
        /\ req[r].kind \in {"deposit", "withdraw", "transfer"}
        /\ Started(r) /\ CalledInvalid(req[r])
        => /\ Done(r) /\ resp[r].status = 400
           /\ resp[r].error \in {"Invalid input", "Invalid amount"}
           /\ hist[r].stmts = 0 /\ hist[r].begin = 0

\* the inputs that name an account that does not exist: a valid transfer
\* whose toUsername is no user's name, and a valid deposit, withdrawal or
\* transfer whose token id has no row
NotFoundInput(q) ==
    \/ /\ q.kind = "transfer"
       /\ ~InvalidTransferInput(q.toUsername, q.amount)
       /\ Recipient(q) = NULL \/ q.uid \notin UserIds
    \/ /\ q.kind \in {"deposit", "withdraw"}
       /\ ~InvalidAmount(q.amount)
       /\ q.uid \notin UserIds

\* C11: not-found leaves no trace.  A deposit, withdrawal or transfer that was
\* answered 404 has issued no UPDATE and no INSERT, and a transaction it
\* opened has been ended by its one ROLLBACK and is not open any more; and a
\* request naming a missing account, run with no other request around it and
\* no failing statement, is answered 404 and leaves the database file and
\* the connection as they were, with no transaction open.
C11_NotFoundNoTrace ==
    \A r \in Requests :
        /\ req[r].kind \in {"deposit", "withdraw", "transfer"} /\ Done(r)
        => /\ resp[r].status = 404
              => /\ hist[r].writes = 0
                 /\ owner # r
                 /\ hist[r].ends = (IF hist[r].opened THEN 1 ELSE 0)
                 /\ <<r, "debit">> \notin conn.applied
                 /\ <<r, "credit">> \notin conn.applied
           /\ NotFoundInput(req[r]) /\ Alone(r) /\ faults = 0
              => /\ resp[r].status = 404
                 /\ durable = InitDb /\ conn = InitDb /\ ~inTx

\* C11 witness: a request whose token id has no row opened a transaction,
\* rolled it back and was answered 404.
C11_Witness ==
    \E r \in Requests :
        /\ req[r].kind \in {"deposit", "withdraw", "transfer"}
        /\ req[r].uid \notin UserIds
        /\ Alone(r) /\ Done(r) /\ resp[r].status = 404
        /\ hist[r].opened /\ hist[r].ends = 1

\* the only record in the database file, if it holds exactly one
OnlyRecord == durable.transactions[1]

\* after request r the database file holds the initial balances except
\* those given by changed
BalancesAre(changed) ==
    \A i \in UserIds :
        durable.balance[i] = (IF i \in DOMAIN changed THEN changed[i]
                                                     ELSE InitDb.balance[i])

\* C12: successful transfer.  A transfer with a valid amount the sender's
\* balance covers, to another existing user, run with no other request
\* around it and no failing statement, has returned success; the database
\* file holds the sender's balance minus the amount, the recipient's plus
\* the amount, and exactly one record, a 'committed' transfer from the sender
\* to the recipient of that amount; the response carries those two balances;
\* nothing is left uncommitted.
C12_TransferAlone ==
    \A r \in Requests :
        LET q == req[r]
            u == q.uid
            t == Recipient(q)
            n == Number(q.amount)
        IN /\ q.kind = "transfer" /\ Alone(r) /\ Done(r) /\ faults = 0
           /\ ~CalledInvalid(q) /\ u \in UserIds /\ t \in UserIds /\ u # t
           /\ n <= InitDb.balance[u]
           => /\ Ok(r)
              /\ BalancesAre((u :> InitDb.balance[u] - n) @@ (t :> InitDb.balance[t] + n))
              /\ Len(durable.transactions) = 1
              /\ OnlyRecord.type = "transfer" /\ OnlyRecord.status = "committed"
              /\ OnlyRecord.from_user = u /\ OnlyRecord.to_user = t
              /\ OnlyRecord.amount = n
              /\ resp[r].fromBalance = durable.balance[u]
              /\ resp[r].toBalance = durable.balance[t]
              /\ conn = durable /\ ~inTx

\* C12 witness: alice's transfer of 600 to bob, alone, has returned success.
C12_Witness ==
    \E r \in Requests :
        /\ req[r].kind = "transfer" /\ Alone(r) /\ Ok(r) /\ faults = 0
        /\ req[r].uid = AliceId /\ Recipient(req[r]) = BobId
        /\ req[r].amount = Num(600)
        /\ durable.balance[BobId] > InitDb.balance[BobId]

\* C13: deposit.  A deposit of a valid amount by an existing user, run with
\* no other request around it and no failing statement, has returned
\* success; the database file holds that user's balance plus the amount and
\* exactly one record, a 'committed' deposit to that user with no source;
\* the response carries the stored balance; nothing is left uncommitted.
C13_DepositAlone ==
    \A r \in Requests :
        LET q == req[r]
            u == q.uid
            n == Number(q.amount)
        IN /\ q.kind = "deposit" /\ Alone(r) /\ Done(r) /\ faults = 0
           /\ ~CalledInvalid(q) /\ u \in UserIds
           => /\ Ok(r)
              /\ BalancesAre(u :> InitDb.balance[u] + n)
              /\ Len(durable.transactions) = 1
              /\ OnlyRecord.type = "deposit" /\ OnlyRecord.status = "committed"
              /\ OnlyRecord.from_user = NULL /\ OnlyRecord.to_user = u
              /\ OnlyRecord.amount = n
              /\ resp[r].fromBalance = durable.balance[u]
              /\ conn = durable /\ ~inTx

\* C13 witness: a deposit given its amount as the text "600", alone, has
\* returned success.
C13_Witness ==
    \E r \in Requests :
        /\ req[r].kind = "deposit" /\ Alone(r) /\ Ok(r) /\ faults = 0
        /\ req[r].amount = Str("600")
        /\ durable.balance[req[r].uid] = InitDb.balance[req[r].uid] + 600

\* C14: successful withdrawal.  A withdrawal of a valid amount not above the
\* balance (the balance itself included) by an existing user, run with no
\* other request around it and no failing statement, has returned success;
\* the database file holds that user's balance minus the amount and exactly
\* one record, a 'committed' withdraw from that user with no destination;
\* the response carries the new balance; nothing is left uncommitted.
C14_WithdrawAlone ==
    \A r \in Requests :
        LET q == req[r]
            u == q.uid
            n == Number(q.amount)
        IN /\ q.kind = "withdraw" /\ Alone(r) /\ Done(r) /\ faults = 0
           /\ ~CalledInvalid(q) /\ u \in UserIds
           /\ n <= InitDb.balance[u]
           => /\ Ok(r)
              /\ BalancesAre(u :> InitDb.balance[u] - n)
              /\ Len(durable.transactions) = 1
              /\ OnlyRecord.type = "withdraw" /\ OnlyRecord.status = "committed"
              /\ OnlyRecord.from_user = u /\ OnlyRecord.to_user = NULL
              /\ OnlyRecord.amount = n
              /\ resp[r].fromBalance = durable.balance[u]
              /\ conn = durable /\ ~inTx

\* C14 witness: bob's withdrawal of his whole balance, alone, has returned
\* success and left him 0.
C14_Witness ==
    \E r \in Requests :
        /\ req[r].kind = "withdraw" /\ Alone(r) /\ Ok(r) /\ faults = 0
        /\ Number(req[r].amount) = InitDb.balance[req[r].uid]
        /\ durable.balance[req[r].uid] = 0

\* what the read of request q returns when it runs on database db
ReadOf(db, q) ==
    CASE q.kind = "balance" ->
            {[NoResp EXCEPT !.status = 200,
                            !.fromBalance = findUserById(db, q.uid).balance]}
      [] q.kind = "users" ->
            {[NoResp EXCEPT !.status = 200,
                            !.rows = [i \in UserIds |-> Row(db, i)]]}
      [] q.kind = "transactions" ->
            {[NoResp EXCEPT !.status = 200, !.rows = rows] :
                rows \in OrderByCreatedAtDesc(db, q.userId)}
      [] OTHER -> {}

\* C15: read isolation.  Whenever GET /api/balance, GET /api/users or
\* GET /api/transactions answers with data, the data is what the same query
\* returns on the committed state, the database file, at that moment:
\* no balance and no record of a transaction that has not committed.
C15_ReadIsolation ==
    [][\A r \in Requests :
          /\ req[r].kind \in {"balance", "users", "transactions"}
          /\ pc[r] # "done" /\ pc'[r] = "done" /\ resp'[r].status = 200
          => resp'[r] \in ReadOf(durable, req[r])]_vars

\* the accounts that took part in the transfer attempt of request m
Participants(m) ==
    IF req[m].kind \in {"transfer", "transfer-fail"}
    THEN {req[m].uid, Recipient(req[m])} \cap UserIds
    ELSE {req[m].uid} \cap UserIds

\* C16: listTransactions.  Whenever GET /api/transactions answers, (a) the
\* rows are exactly the stored records whose from_user or to_user is the
\* account of the filter, or all stored records if there is no filter;
\* (b) a row never comes after one that was appended earlier; (c) a
\* 'rolledback' record stored by another request's attempt is among the rows
\* when the filter is an account that took part in that attempt, as its
\* source or as its destination.  (Only the reader and one other request
\* run, so every stored record is the other request's.)
C16_ListTransactions ==
    [][\A rd \in Requests :
          /\ req[rd].kind = "transactions"
          /\ pc[rd] # "done" /\ pc'[rd] = "done" /\ resp'[rd].status = 200
          => LET rows == resp'[rd].rows
                 ids == {rows[k].id : k \in 1..Len(rows)}
                 log == conn.transactions
                 all == req[rd].userId = Undef
                 acct == ToNumber(req[rd].userId).v
             IN /\ ids = {log[i].id : i \in {j \in 1..Len(log) :
                                all \/ log[j].from_user = acct
                                    \/ log[j].to_user = acct}}
                /\ Len(rows) = Cardinality(ids)
                /\ \A i, j \in 1..Len(rows) : i < j => rows[i].id > rows[j].id
                /\ \A m \in Requests \ {rd} : \A i \in 1..Len(log) :
                       /\ log[i].status = "rolledback"
                       /\ ~all /\ acct \in Participants(m)
                       /\ ~CalledInvalid(req[m])
                       => log[i].id \in ids]_vars

\* the statements a handler issues between its BEGIN and its COMMIT or
\* ROLLBACK, the latter included
TxSteps ==
    { "SELECT_from", "SELECT_to", "SELECT_user", "ROLLBACK_notfound",
      "INSERT_insufficient", "ROLLBACK_insufficient", "UPDATE_from", "UPDATE_to",
      "UPDATE_user", "INSERT_committed", "INSERT_simulated", "COMMIT" }

\* C17: single-writer boundaries.  No BEGIN fails for having been issued
\* while a transaction is open; a request is past its BEGIN only if that
\* BEGIN succeeded; and a request about to issue a statement of its
\* transaction never finds the connection inside a transaction that another
\* request opened.
C17_SingleWriter ==
    \A r \in Requests :
        /\ local[r].err # "cannot start a transaction within a transaction"
        /\ pc[r] \in TxSteps => hist[r].opened
        /\ pc[r] \in TxSteps /\ inTx => owner = r

\* C18: a transaction is ended by the request that opened it.  Whenever a
\* step ends a transaction that holds uncommitted writes, by ROLLBACK or by
\* COMMIT, the step is one of the request that opened the transaction
\* (stated for the runs in which no statement fails for an external reason).
C18_EndsOwnTransaction ==
    [][inTx /\ ~inTx' /\ conn # durable /\ faults = 0
         => pc'[owner] # pc[owner]]_vars

\* the COMMIT and ROLLBACK statements a request is to issue: one if its
\* BEGIN succeeded, none otherwise
EndsDue(r) == IF hist[r].opened THEN 1 ELSE 0

\* C19: exactly one COMMIT or ROLLBACK per opened transaction.  A request
\* never has issued more COMMIT and ROLLBACK statements than one for a BEGIN
\* of its own that succeeded, and when it has responded it has issued
\* exactly that many (stated for the runs in which no statement fails for an
\* external reason).
C19_OneEndPerBegin ==
    \A r \in Requests :
        faults = 0
        => /\ hist[r].ends <= EndsDue(r)
           /\ Done(r) => hist[r].ends = EndsDue(r)

\* the net effect on account i of the 'committed' records log[1..k]
RECURSIVE Net(_, _, _)
Net(log, k, i) ==
    IF k = 0 THEN 0
    ELSE Net(log, k - 1, i)
         + (IF log[k].status = "committed" /\ log[k].to_user = i
            THEN log[k].amount ELSE 0)
         - (IF log[k].status = "committed" /\ log[k].from_user = i
            THEN log[k].amount ELSE 0)

\* C20: balances match the committed records.  When no request is in flight,
\* every balance in the database file is the initial balance plus the net
\* effect of the 'committed' records in the file (stated for deposits,
\* withdrawals, transfers to another user and reads, and for the runs in
\* which no statement fails for an external reason).
C20_BalancesMatchRecords ==
    /\ Quiet /\ faults = 0
    /\ \A r \in Requests :
          /\ req[r].kind # "transfer-fail"
          /\ req[r].kind = "transfer" => req[r].uid # Recipient(req[r])
    => \A i \in UserIds :
          durable.balance[i]
            = InitDb.balance[i]
              + Net(durable.transactions, Len(durable.transactions), i)

\* C21: uniform fault handling.  A deposit, withdrawal or transfer in which a
\* statement failed after a balance was written and before COMMIT completed,
\* run with no other request around it and with no other failing statement,
\* has, when it has responded, rolled the transaction back (the database
\* file holds the initial balances and no transaction is open) and has left
\* one 'rolledback' record with a note in the database file.
C21_UniformFaultHandling ==
    \A r \in Requests :
        /\ req[r].kind \in {"deposit", "withdraw", "transfer"}
        /\ Alone(r) /\ Done(r) /\ hist[r].lateFault /\ faults = 1
        => /\ durable.balance = InitDb.balance
           /\ conn = durable /\ ~inTx
           /\ Len(durable.transactions) = 1
           /\ durable.transactions[1].status = "rolledback"
           /\ durable.transactions[1].note.message # ""

\* a request is in flight: it has arrived and has not responded
InFlight(r) == pc[r] \notin {"idle", "done"}

\* C22: termination.  Under fair scheduling every request is in flight only
\* for a time: from some moment on it is for ever not in flight, so one that
\* has arrived has responded; a request has a response exactly when it has
\* returned, and the response is a success or an error; once it has
\* responded it stays so, and its response and its record of statements
\* never change again; and whenever no request is in flight (and no
\* ROLLBACK failed for an external reason) no transaction is open on the
\* connection.
C22_Terminates ==
    /\ \A r \in Requests : <>[](~InFlight(r))
    /\ [](\A r \in Requests :
            IF Done(r) THEN resp[r].status \in {200, 400, 404, 500}
                       ELSE resp[r] = NoResp)
    /\ [][\A r \in Requests :
            Done(r) => pc'[r] = "done" /\ resp'[r] = resp[r] /\ hist'[r] = hist[r]]_vars
    /\ [](Quiet /\ (\A r \in Requests : ~hist[r].endFault) => ~inTx)

\* C22 witness: two requests ran interleaved, a statement failed on the way,
\* and both have responded, one with success and one with an error.
C22_Witness ==
    \E r, q \in Requests :
        /\ Done(r) /\ Done(q) /\ Ok(r) /\ resp[q].status = 500
        /\ req[r].kind = "transfer" /\ req[q].kind = "transfer-fail"
        /\ hist[q].opened /\ faults = 1

\* the transfer of request r goes from one existing user to another
ProperTransfer(r) ==
    /\ req[r].kind = "transfer"
    /\ req[r].uid \in UserIds /\ Recipient(req[r]) \in UserIds
    /\ req[r].uid # Recipient(req[r])

\* C23: transfer acts on the rows read inside its transaction.  When a
\* transfer between two users and another deposit, withdrawal or such
\* transfer have both returned success, the balances in the database file
\* are those of running the two one after the other in one of the two
\* orders, wherever the other request's commit fell relative to the
\* transfer's name lookup; and the balances the transfer returned are the
\* rows it read after BEGIN less and plus the amount.
C23_ActsOnFreshRows ==
    \A r, q \in Requests :
        /\ r # q /\ ProperTransfer(r) /\ Ok(r) /\ Ok(q)
        /\ req[q].kind \in {"deposit", "withdraw"} \/ ProperTransfer(q)
        => /\ durable.balance \in { RunInOrder(InitDb.balance, <<q, r>>),
                                    RunInOrder(InitDb.balance, <<r, q>>) }
           /\ resp[r].fromBalance
                = local[r].fromUser.balance - Number(req[r].amount)
           /\ resp[r].toBalance
                = local[r].freshToUser.balance + Number(req[r].amount)

\* C23 witness: a deposit to the recipient committed after the transfer's
\* name lookup and before its BEGIN (the row of the lookup holds another
\* balance than the row read inside the transaction), and both succeeded.
C23_Witness ==
    \E r, q \in Requests :
        /\ r # q /\ ProperTransfer(r) /\ Ok(r) /\ Ok(q)
        /\ req[q].kind = "deposit" /\ req[q].uid = Recipient(req[r])
        /\ local[r].toUser.balance # local[r].freshToUser.balance
        /\ durable.balance[Recipient(req[r])]
             = InitDb.balance[Recipient(req[r])]
               + Number(req[q].amount) + Number(req[r].amount)

\* C24: the log is append-only with increasing ids.  With no transaction open
\* the connection shows exactly the records of the database file; the ids
\* of the records in the file increase strictly along the log; and every
\* step leaves each record of the file in its place with all its fields,
\* adding records only at the end and only with ids above every id already
\* in the file.
C24_AppendOnlyLog ==
    /\ [](~inTx => conn.transactions = durable.transactions)
    /\ [](\A i, j \in 1..Len(durable.transactions) :
             i < j => durable.transactions[i].id < durable.transactions[j].id)
    /\ [][LET old == durable.transactions
              new == durable'.transactions
          IN /\ Len(new) >= Len(old)
             /\ \A i \in 1..Len(old) : new[i] = old[i]
             /\ \A i \in (Len(old) + 1)..Len(new) :
                   \A j \in 1..Len(old) : new[i].id > old[j].id]_vars

\* C24 witness: a transfer's record was inserted and rolled back with its
\* transaction, its compensating record was inserted after the ROLLBACK,
\* and the other request added a second record to the database file.
C24_Witness ==
    \E r \in Requests :
        /\ req[r].kind = "transfer" /\ Done(r) /\ hist[r].lateFault
        /\ hist[r].writes = 4
        /\ Len(durable.transactions) = 2 /\ ~inTx

====
